---- MODULE Spec2Model ----
(***************************************************************************)
(* Model of examples/mcp-agent/agent.py: the attachment list, the set of   *)
(* filenames consumed by auto-invocation, the payload extractor, the       *)
(* schema matcher, maybe_auto_call_tool, run_agent and interactive_mode.   *)
(*                                                                         *)
(* Conventions                                                             *)
(*   None            Python's None, modelled as the empty tuple            *)
(*   Some(x)         a present optional value, the one-element tuple       *)
(*   filenames       sequences of characters, so that str.endswith and     *)
(*                   the extension lookup of mimetypes are computed        *)
(*   file contents   sequences of byte values                              *)
(***************************************************************************)
EXTENDS Integers, Sequences, FiniteSets, TLC

\* ------------------------------------------------------------------ bounds

\* Largest attachment list of a run (preloaded with --file plus /attach).
MaxFiles == 2

\* Largest attachment list handed to extract_json_payload on its own.
MaxExtractLen == 2

\* ------------------------------------------------------------ basic values

None == <<>>

Some(x) == <<x>>

\* File names: a.json, b.json, n.txt, c.JSON (upper-case extension).
NameA == <<"a", ".", "j", "s", "o", "n">>

NameB == <<"b", ".", "j", "s", "o", "n">>

NameN == <<"n", ".", "t", "x", "t">>

NameC == <<"c", ".", "J", "S", "O", "N">>

NameMissing == <<"m", ".", "j", "s", "o", "n">>

DotJson == <<".", "j", "s", "o", "n">>

DotTxt == <<".", "t", "x", "t">>

\* File contents as bytes: {} , [] , 3 , hi (not JSON) , 0xFF (not UTF-8).
ObjBytes == <<123, 125>>

ArrBytes == <<91, 93>>

NumBytes == <<51>>

TextBytes == <<104, 105>>

BadUtf8Bytes == <<255>>

\* str.endswith(suffix)
EndsWith(s, suffix) ==
    /\ Len(s) >= Len(suffix)
    /\ SubSeq(s, Len(s) - Len(suffix) + 1, Len(s)) = suffix

\* str.lower() on the characters the file names use
LowerChar(c) ==
    CASE c = "J" -> "j"
      [] c = "S" -> "s"
      [] c = "O" -> "o"
      [] c = "N" -> "n"
      [] OTHER -> c

Lower(s) == [i \in 1..Len(s) |-> LowerChar(s[i])]

\* posixpath.splitext: the extension from the last dot on (empty when the
\* name has no dot after its first character).
RECURSIVE LastDot(_, _)
LastDot(s, i) ==
    IF i <= 1 THEN 0
    ELSE IF s[i] = "." THEN i
    ELSE LastDot(s, i - 1)

SplitExt(name) ==
    LET d == LastDot(name, Len(name))
    IN  IF d = 0 THEN <<>> ELSE SubSeq(name, d, Len(name))

\* mimetypes.guess_type: the extension is looked up as written, then in
\* lower case; None when the table has no entry.
TypesMapHas(ext) == ext \in {DotJson, DotTxt}

TypesMap(ext) == IF ext = DotJson THEN "application/json" ELSE "text/plain"

GuessType(name) ==
    LET ext == SplitExt(name)
    IN  IF TypesMapHas(ext) THEN Some(TypesMap(ext))
        ELSE IF TypesMapHas(Lower(ext)) THEN Some(TypesMap(Lower(ext)))
        ELSE None

\* base64.b64encode / b64decode: the encoded form wraps the bytes it stands
\* for; decoding a well-formed encoding gives them back.
B64Encode(bytes) == [b64 |-> bytes]

B64Decode(data) == data.b64

\* bytes.decode("utf-8"): fails on a byte that cannot occur in UTF-8; the
\* contents used here are otherwise ASCII, whose code points are the bytes.
Utf8Valid(bytes) == \A i \in 1..Len(bytes) : bytes[i] < 128

Utf8Decode(bytes) == bytes

\* json.loads on the decoded text: {} is a dict, [] a list, 3 an int,
\* anything else a parse error.
JsonValid(text) == text \in {ObjBytes, ArrBytes, NumBytes}

JsonLoads(text) ==
    CASE text = ObjBytes -> [kind |-> "dict"]
      [] text = ArrBytes -> [kind |-> "list"]
      [] OTHER -> [kind |-> "int"]

\* ------------------------------------------------------------- file system

\* Paths are <<directory, name>>; path.name is the last component.
PathName(path) == path[2]

Paths ==
    { <<"d1", NameA>>, <<"d2", NameA>>, <<"d1", NameB>>,
      <<"d1", NameN>>, <<"d1", NameC>>, <<"d1", NameMissing>> }

PathExists(path) == PathName(path) # NameMissing

FileContent(path) ==
    CASE path = <<"d1", NameA>> -> ObjBytes
      [] path = <<"d2", NameA>> -> ArrBytes
      [] path = <<"d1", NameB>> -> TextBytes
      [] path = <<"d1", NameN>> -> ObjBytes
      [] path = <<"d1", NameC>> -> NumBytes
      [] OTHER -> BadUtf8Bytes

\* load_file for a path that exists
load_file(path) ==
    LET guessed == GuessType(PathName(path))
        content == FileContent(path)
    IN  [ filename  |-> PathName(path),
          mime_type |-> IF guessed = None THEN "application/octet-stream"
                        ELSE guessed[1],
          data      |-> B64Encode(content),
          size      |-> Len(content),
          path      |-> path ]

\* ------------------------------------------------------- payload extractor

\* `used_filenames and filename in used_filenames`, used_filenames optional
IsUsedNever(used_filenames, filename) == FALSE

IsUsed(used_filenames, filename) ==
    /\ used_filenames # None
    /\ used_filenames[1] # {}
    /\ filename \in used_filenames[1]

IsJsonMimeOnly(file_info) == file_info.mime_type = "application/json"

IsJson(file_info) ==
    \/ file_info.mime_type = "application/json"
    \/ EndsWith(file_info.filename, DotJson)

\* the try block: decode and parse; FALSE when it raises
ParseOk(file_info) ==
    /\ Utf8Valid(B64Decode(file_info.data))
    /\ JsonValid(Utf8Decode(B64Decode(file_info.data)))

ParsedPayload(file_info) == JsonLoads(Utf8Decode(B64Decode(file_info.data)))

\* The scan from attachment i on. Returns None or <<payload, filename>>.
RECURSIVE ExtractFrom(_, _, _)
ExtractFrom(files, used_filenames, i) ==
    IF i > Len(files) THEN None
    ELSE IF IsUsed(used_filenames, files[i].filename)
         THEN ExtractFrom(files, used_filenames, i + 1)
    ELSE IF ~IsJson(files[i])
         THEN ExtractFrom(files, used_filenames, i + 1)
    ELSE IF ParseOk(files[i])
         THEN <<ParsedPayload(files[i]), files[i].filename>>
    ELSE ExtractFrom(files, used_filenames, i + 1)

extract_json_payload(files, used_filenames) ==
    IF files = <<>> THEN None ELSE ExtractFrom(files, used_filenames, 1)

\* ---------------------------------------------------------- schema matcher

EmptyDict == <<>>

\* schema.get("type")
SchemaType(schema) ==
    IF "type" \in DOMAIN schema THEN Some(schema.type) ELSE None

payload_matches_schema_object_only(schema, payload) ==
    IF SchemaType(schema) = Some("object") THEN payload.kind = "dict"
    ELSE TRUE

payload_matches_schema(schema, payload) ==
    IF SchemaType(schema) = Some("object") THEN payload.kind = "dict"
    ELSE IF SchemaType(schema) = Some("array") THEN payload.kind = "list"
    ELSE TRUE

\* ---------------------------------------------------------- prompt composer

\* Strings built by the composer are sequences of pieces: a literal, a file
\* name, a decoded content, a mime type or a size.
Lit(str) == [lit |-> str]

\* the text the user typed in a free-text turn (or the prompt argument)
UserText == <<Lit("process this")>>

\* mime_type.startswith("text/") over the mime types load_file produces and
\* the ones the extractor is given
StartsWithText(mime_type) == mime_type = "text/plain"

\* format_file_for_prompt: the content inline for a textual or JSON file that
\* decodes, the metadata line otherwise (the bare except falls through)
format_file_for_prompt(file_info) ==
    IF /\ \/ StartsWithText(file_info.mime_type)
          \/ file_info.mime_type = "application/json"
       /\ Utf8Valid(B64Decode(file_info.data))
    THEN << Lit("\n--- File: "), [name |-> file_info.filename], Lit(" ---\n"),
            [text |-> Utf8Decode(B64Decode(file_info.data))],
            Lit("\n--- End of "), [name |-> file_info.filename],
            Lit(" ---\n") >>
    ELSE << Lit("\n[Attached file: "), [name |-> file_info.filename],
            Lit(" ("), [mime |-> file_info.mime_type], Lit(", "),
            [size |-> file_info.size], Lit(" bytes)]\n") >>

\* "\n".join(format_file_for_prompt(f) for f in files), from file i on
RECURSIVE JoinBlocksFrom(_, _)
JoinBlocksFrom(files, i) ==
    IF i > Len(files) THEN <<>>
    ELSE IF i = Len(files) THEN format_file_for_prompt(files[i])
    ELSE format_file_for_prompt(files[i]) \o <<Lit("\n")>>
         \o JoinBlocksFrom(files, i + 1)

build_prompt_always_prefixed(prompt, files) ==
    JoinBlocksFrom(files, 1) \o <<Lit("\n")>> \o prompt

build_prompt_with_files(prompt, files) ==
    IF files = <<>> THEN prompt
    ELSE JoinBlocksFrom(files, 1) \o <<Lit("\n")>> \o prompt

\* ------------------------------------------------------------ tool servers

\* The servers of the client's configuration, in the order of the mapping
\* that create_all_sessions returns.
ServerOrder == <<"skills", "extra">>

Tool(name, schema) == [name |-> name, inputSchema |-> schema]

ToolObject == Tool("t_object", [type |-> "object"])

ToolArray == Tool("t_array", [type |-> "array"])

ToolString == Tool("t_string", [type |-> "string"])

ToolAny == Tool("t_any", EmptyDict)

\* What session.list_tools() can answer in one attempt: a failure, or a list.
ListFailure == [ok |-> FALSE, tools |-> <<>>]

ListOf(ts) == [ok |-> TRUE, tools |-> ts]

ListAnswers ==
    { ListFailure, ListOf(<<>>), ListOf(<<ToolObject>>), ListOf(<<ToolArray>>),
      ListOf(<<ToolString>>), ListOf(<<ToolAny>>),
      ListOf(<<ToolObject, ToolArray>>) }

Listings == [{ServerOrder[i] : i \in 1..Len(ServerOrder)} -> ListAnswers]

\* client.create_all_sessions(): one session per configured server
create_all_sessions == ServerOrder

\* for tool in session_tools: tools.append((server_name, session, tool));
\* the session handle is identified with its server name.
TaggedTools(server_name, session_tools) ==
    [j \in 1..Len(session_tools) |-> <<server_name, session_tools[j]>>]

\* The enumeration loop from session i on.
RECURSIVE EnumerateStopAtFailure(_, _, _)
EnumerateStopAtFailure(sess, listing, i) ==
    IF i > Len(sess) THEN <<>>
    ELSE IF ~listing[sess[i]].ok THEN <<>>
    ELSE TaggedTools(sess[i], listing[sess[i]].tools)
         \o EnumerateStopAtFailure(sess, listing, i + 1)

RECURSIVE EnumerateFrom(_, _, _)
EnumerateFrom(sess, listing, i) ==
    IF i > Len(sess) THEN <<>>
    ELSE IF ~listing[sess[i]].ok THEN EnumerateFrom(sess, listing, i + 1)
    ELSE TaggedTools(sess[i], listing[sess[i]].tools)
         \o EnumerateFrom(sess, listing, i + 1)

EnumerateToolsStopAtFailure(sess, listing) ==
    EnumerateStopAtFailure(sess, listing, 1)

EnumerateTools(sess, listing) == EnumerateFrom(sess, listing, 1)

\* the guard `len(tools) != 1` lets the attempt go on
AtLeastOneTool(tool_list) == Len(tool_list) >= 1

ExactlyOneTool(tool_list) == Len(tool_list) = 1

\* getattr(tool, "inputSchema", {}) or {}
InputSchemaOf(tool) ==
    IF "inputSchema" \in DOMAIN tool THEN tool.inputSchema ELSE EmptyDict

\* used_filenames.add(filename) when used_filenames is not None
MarkUsedForgotten(used, filename) == used

MarkUsedReplacing(used, filename) == {filename}

MarkUsed(used, filename) == used \cup {filename}

\* session.call_tool raising inside maybe_auto_call_tool: nothing catches it
OnCallToolErrorSwallowed == "none"

OnCallToolError == "raise"

\* `if not sessions`: the client has no active session
NoActiveSessionsIgnored(active) == TRUE

NoActiveSessions(active) == active = <<>>

\* maybe_auto_call_tool with the sessions and the tool lists obtained before
\* the payload is looked for
DecideEnumerateFirst(files, used_filenames, active, listing, createOk) ==
    LET info == extract_json_payload(files, used_filenames)
        sess == IF NoActiveSessions(active) THEN create_all_sessions
                ELSE active
        found == EnumerateTools(sess, listing)
        failed == [ payload_info |-> info, sessions |-> active,
                    created |-> FALSE, listed |-> None, tools |-> <<>>,
                    called |-> None, auto_result |-> "raise" ]
        enumerated == [ payload_info |-> info, sessions |-> sess,
                        created |-> NoActiveSessions(active),
                        listed |-> Some(listing), tools |-> found,
                        called |-> None, auto_result |-> "none" ]
    IN  IF NoActiveSessions(active) /\ ~createOk THEN failed
        ELSE IF info = None THEN enumerated
        ELSE IF ~ExactlyOneTool(found) THEN enumerated
        ELSE IF ~payload_matches_schema(InputSchemaOf(found[1][2]), info[1])
             THEN enumerated
        ELSE [enumerated EXCEPT
                 !.called = Some([ server |-> found[1][1],
                                   tool |-> found[1][2].name,
                                   arguments |-> info[1] ]),
                 !.auto_result = "pending"]

\* maybe_auto_call_tool up to the await of session.call_tool.
\*   auto_result  "none" (abstain), "pending" (call in flight), "raise"
Decide(files, used_filenames, active, listing, createOk) ==
    LET info == extract_json_payload(files, used_filenames)
        sess == IF NoActiveSessions(active) THEN create_all_sessions
                ELSE active
        found == EnumerateTools(sess, listing)
        abstain == [ payload_info |-> info, sessions |-> active,
                     created |-> FALSE, listed |-> None, tools |-> <<>>,
                     called |-> None, auto_result |-> "none" ]
    IN  IF info = None THEN abstain
        ELSE IF NoActiveSessions(active) /\ ~createOk
             THEN [abstain EXCEPT !.auto_result = "raise"]
        ELSE LET enumerated ==
                     [abstain EXCEPT !.sessions = sess,
                                     !.created = NoActiveSessions(active),
                                     !.listed = Some(listing),
                                     !.tools = found]
             IN  IF ~ExactlyOneTool(found) THEN enumerated
                 ELSE IF ~payload_matches_schema(InputSchemaOf(found[1][2]),
                                                 info[1])
                      THEN enumerated
                 ELSE [enumerated EXCEPT
                          !.called = Some([ server |-> found[1][1],
                                            tool |-> found[1][2].name,
                                            arguments |-> info[1] ]),
                          !.auto_result = "pending"]

\* the finally block: `except Exception: pass` around disconnect_all
TeardownOutcomeUnswallowed(primaryOutcome, disconnectOk) ==
    IF disconnectOk THEN primaryOutcome ELSE "err:teardown"

TeardownOutcome(primaryOutcome, disconnectOk) == primaryOutcome

\* -------------------------------------------------------------------- state

VARIABLES
    pc,              \* where the run is: main, attempt, input, calling, agent,
                     \* teardown, done (extract, extracted: the extractor alone)
    mode,            \* "none", "single" (run_agent), "interactive"
    attached_files,  \* the attachment list
    auto_pass_used,  \* filenames consumed by a successful auto-invocation
    sessions,        \* the client's active sessions, in mapping order
    payload_info,    \* the current attempt's extract_json_payload result
    listed,          \* the tool lists the servers answered in the attempt
    tools,           \* the attempt's flattened (server, tool) list
    called,          \* the attempt's call_tool invocation, if any
    created,         \* whether the attempt called create_all_sessions
    auto_result,     \* maybe_auto_call_tool's outcome in the current turn
    full_prompt,     \* the prompt agent.run got in the current turn, if any
    last,            \* the step taken last
    consumed,        \* filename consumed by the turn just before, if nothing
                     \* but /files, /help or empty input came since
    prevConsumed,    \* `consumed` as the current attempt found it
    primary,         \* the run's own result or error
    teardown,        \* "none", "ok", "failed", "aborted"
    observed         \* what the caller of the run gets

vars ==
    << pc, mode, attached_files, auto_pass_used, sessions, payload_info, listed,
       tools, called, created, auto_result, full_prompt, last, consumed,
       prevConsumed, primary, teardown, observed >>

turnVars ==
    <<payload_info, listed, tools, called, created, auto_result, full_prompt>>

runVars == <<primary, teardown, observed>>

\* sequences over S of length at most n
RECURSIVE SeqsUpTo(_, _)
SeqsUpTo(S, n) ==
    IF n = 0 THEN {<<>>}
    ELSE LET shorter == SeqsUpTo(S, n - 1)
         IN  shorter \cup
             {Append(q, x) : q \in {r \in shorter : Len(r) = n - 1}, x \in S}

Init ==
    /\ pc = "main"
    /\ mode = "none"
    /\ attached_files = <<>>
    /\ auto_pass_used = {}
    /\ sessions = <<>>
    /\ payload_info = None
    /\ listed = None
    /\ tools = <<>>
    /\ called = None
    /\ created = FALSE
    /\ auto_result = "unset"
    /\ full_prompt = None
    /\ last = "init"
    /\ consumed = None
    /\ prevConsumed = None
    /\ primary = "unset"
    /\ teardown = "none"
    /\ observed = "unset"

\* --------------------------------------------------------------------- main

AllExist(paths) == \A i \in 1..Len(paths) : PathExists(paths[i])

LoadAll(paths) == [i \in 1..Len(paths) |-> load_file(paths[i])]

\* main(): a --file that cannot be loaded prints the error and returns
MainPreloadError(paths) ==
    /\ pc = "main"
    /\ ~AllExist(paths)
    /\ pc' = "done"
    /\ primary' = "ret:preload_error"
    /\ observed' = "ret:preload_error"
    /\ last' = "preload_error"
    /\ UNCHANGED << mode, attached_files, auto_pass_used, sessions, turnVars,
                    consumed, prevConsumed, teardown >>

\* main() with a prompt: run_agent(prompt, provider, files) up to its try
MainSingle(paths) ==
    /\ pc = "main"
    /\ AllExist(paths)
    /\ mode' = "single"
    /\ attached_files' = LoadAll(paths)
    /\ pc' = "attempt"
    /\ last' = "main"
    /\ UNCHANGED << auto_pass_used, sessions, turnVars, consumed, prevConsumed,
                    runVars >>

\* main() without a prompt: attached_files = files, then interactive_mode up
\* to its loop; get_llm and MCPAgent are built before the try.
MainInteractive(paths, llmOk) ==
    /\ pc = "main"
    /\ AllExist(paths)
    /\ mode' = "interactive"
    /\ attached_files' = LoadAll(paths)
    /\ last' = "main"
    /\ IF llmOk
       THEN /\ pc' = "input"
            /\ UNCHANGED runVars
       ELSE /\ pc' = "done"
            /\ primary' = "err:setup"
            /\ observed' = "err:setup"
            /\ UNCHANGED teardown
    /\ UNCHANGED << auto_pass_used, sessions, turnVars, consumed, prevConsumed >>

\* ------------------------------------------------------ interactive commands

\* a command ends the turn before: its locals are gone
NoTurn ==
    /\ payload_info' = None
    /\ listed' = None
    /\ tools' = <<>>
    /\ called' = None
    /\ created' = FALSE
    /\ auto_result' = "unset"
    /\ full_prompt' = None
    /\ prevConsumed' = None

AtPrompt == pc = "input" /\ mode = "interactive"

\* `if not user_input: continue`
EmptyInput ==
    /\ AtPrompt
    /\ last' = "empty"
    /\ NoTurn
    /\ UNCHANGED << pc, mode, attached_files, auto_pass_used, sessions,
                    consumed, runVars >>

\* quit / exit: break
Quit ==
    /\ AtPrompt
    /\ pc' = "teardown"
    /\ primary' = "ret:quit"
    /\ last' = "quit"
    /\ NoTurn
    /\ UNCHANGED << mode, attached_files, auto_pass_used, sessions, consumed,
                    teardown, observed >>

\* attached_files.append(file_info)
PrependAttachment(files, file_info) == <<file_info>> \o files

AppendAttachment(files, file_info) == Append(files, file_info)

\* /attach <path>
Attach(path) ==
    /\ AtPrompt
    /\ IF PathExists(path)
       THEN /\ Len(attached_files) < MaxFiles
            /\ attached_files' =
                  AppendAttachment(attached_files, load_file(path))
            /\ last' = "attach_ok"
       ELSE /\ attached_files' = attached_files
            /\ last' = "attach_error"
    /\ consumed' = None
    /\ NoTurn
    /\ UNCHANGED << pc, mode, auto_pass_used, sessions, runVars >>

\* /files
Files ==
    /\ AtPrompt
    /\ last' = "files"
    /\ NoTurn
    /\ UNCHANGED << pc, mode, attached_files, auto_pass_used, sessions,
                    consumed, runVars >>

\* /clear
Clear ==
    /\ AtPrompt
    /\ attached_files' = <<>>
    /\ last' = "clear"
    /\ consumed' = None
    /\ NoTurn
    /\ UNCHANGED << pc, mode, auto_pass_used, sessions, runVars >>

\* /help
Help ==
    /\ AtPrompt
    /\ last' = "help"
    /\ NoTurn
    /\ UNCHANGED << pc, mode, attached_files, auto_pass_used, sessions,
                    consumed, runVars >>

\* ------------------------------------------------------------ the fast path

\* the locals of maybe_auto_call_tool after Decide
SetTurn(d) ==
    /\ payload_info' = d.payload_info
    /\ sessions' = d.sessions
    /\ created' = d.created
    /\ listed' = d.listed
    /\ tools' = d.tools
    /\ called' = d.called
    /\ auto_result' = d.auto_result

\* a free-text turn: maybe_auto_call_tool(client, attached_files,
\* auto_pass_used) up to call_tool; on None, build the prompt and await the
\* agent; an exception leaves the loop through the finally block.
FreeText(listing, createOk) ==
    /\ AtPrompt
    /\ LET d == Decide(attached_files, Some(auto_pass_used), sessions, listing,
                       createOk)
       IN  /\ SetTurn(d)
           /\ IF d.auto_result = "pending"
              THEN /\ pc' = "calling"
                   /\ last' = "auto_call"
                   /\ UNCHANGED primary
              ELSE IF d.auto_result = "none"
              THEN /\ pc' = "agent"
                   /\ last' = "abstain"
                   /\ UNCHANGED primary
              ELSE /\ pc' = "teardown"
                   /\ last' = "connect_error"
                   /\ primary' = "err:connect"
           /\ full_prompt' =
                 IF d.auto_result = "none"
                 THEN Some(build_prompt_with_files(UserText, attached_files))
                 ELSE None
    /\ prevConsumed' = consumed
    /\ consumed' = None
    /\ UNCHANGED << mode, attached_files, auto_pass_used, teardown, observed >>

\* run_agent: maybe_auto_call_tool(client, files or []) up to call_tool; on
\* None, get_llm, MCPAgent, the prompt, and the await of agent.run.
SingleAttempt(listing, createOk, llmOk) ==
    /\ pc = "attempt"
    /\ mode = "single"
    /\ LET d == Decide(attached_files, None, sessions, listing, createOk)
       IN  /\ SetTurn(d)
           /\ IF d.auto_result = "pending"
              THEN /\ pc' = "calling"
                   /\ last' = "auto_call"
                   /\ UNCHANGED primary
              ELSE IF d.auto_result = "none"
              THEN IF llmOk
                   THEN /\ pc' = "agent"
                        /\ last' = "abstain"
                        /\ UNCHANGED primary
                   ELSE /\ pc' = "teardown"
                        /\ last' = "llm_error"
                        /\ primary' = "err:llm"
              ELSE /\ pc' = "teardown"
                   /\ last' = "connect_error"
                   /\ primary' = "err:connect"
           /\ full_prompt' =
                 IF d.auto_result = "none" /\ llmOk
                 THEN Some(build_prompt_with_files(UserText, attached_files))
                 ELSE None
    /\ UNCHANGED << mode, attached_files, auto_pass_used, consumed,
                    prevConsumed, teardown, observed >>

\* session.call_tool returns: the filename is marked, the result formatted;
\* interactive_mode prints it and continues, run_agent returns it.
CallReturns ==
    /\ pc = "calling"
    /\ auto_result' = "str"
    /\ last' = "auto_ok"
    /\ IF mode = "interactive"
       THEN /\ auto_pass_used' = MarkUsed(auto_pass_used, payload_info[2])
            /\ consumed' = Some(payload_info[2])
            /\ pc' = "input"
            /\ UNCHANGED primary
       ELSE /\ pc' = "teardown"
            /\ primary' = "ret:auto"
            /\ UNCHANGED << auto_pass_used, consumed >>
    /\ UNCHANGED << mode, attached_files, sessions, payload_info, listed, tools,
                    called, created, full_prompt, prevConsumed, teardown,
                    observed >>

\* session.call_tool raises
CallRaises ==
    /\ pc = "calling"
    /\ auto_result' = OnCallToolError
    /\ last' = "auto_error"
    /\ IF auto_result' = "raise"
       THEN /\ pc' = "teardown"
            /\ primary' = "err:call"
            /\ UNCHANGED full_prompt
       ELSE /\ pc' = "agent"
            /\ full_prompt' =
                  Some(build_prompt_with_files(UserText, attached_files))
            /\ UNCHANGED primary
    /\ UNCHANGED << mode, attached_files, auto_pass_used, sessions,
                    payload_info, listed, tools, called, created, consumed,
                    prevConsumed, teardown, observed >>

\* ------------------------------------------------------- the reasoning agent

\* agent.run returns; the agent connects the client itself when it finds no
\* session (connects), which the agent library decides.
AgentReturns(connects) ==
    /\ pc = "agent"
    /\ sessions' = IF sessions = <<>> /\ connects THEN create_all_sessions
                   ELSE sessions
    /\ last' = "agent_ok"
    /\ IF mode = "interactive"
       THEN /\ pc' = "input"
            /\ UNCHANGED primary
       ELSE /\ pc' = "teardown"
            /\ primary' = "ret:agent"
    /\ UNCHANGED << mode, attached_files, auto_pass_used, turnVars, consumed,
                    prevConsumed, teardown, observed >>

\* agent.run raises
AgentRaises ==
    /\ pc = "agent"
    /\ pc' = "teardown"
    /\ primary' = "err:agent"
    /\ last' = "agent_error"
    /\ UNCHANGED << mode, attached_files, auto_pass_used, sessions, turnVars,
                    consumed, prevConsumed, teardown, observed >>

\* ---------------------------------------------------------------- interrupts

\* Ctrl-C while input() waits: `except KeyboardInterrupt`, break
InterruptInput ==
    /\ AtPrompt
    /\ pc' = "teardown"
    /\ primary' = "ret:interrupt"
    /\ last' = "interrupt"
    /\ NoTurn
    /\ UNCHANGED << mode, attached_files, auto_pass_used, sessions, consumed,
                    teardown, observed >>

\* Ctrl-C while call_tool or agent.run is awaited. The await ends with
\* KeyboardInterrupt (asKeyboardInterrupt) or with the cancellation of the
\* task; interactive_mode catches the first and breaks, nothing catches the
\* second, run_agent catches neither.
InterruptInFlight(asKeyboardInterrupt) ==
    /\ pc \in {"calling", "agent"}
    /\ pc' = "teardown"
    /\ primary' = IF mode = "interactive" /\ asKeyboardInterrupt
                  THEN "ret:interrupt"
                  ELSE "err:cancel"
    /\ auto_result' = IF pc = "calling" THEN "raise" ELSE auto_result
    /\ last' = IF pc = "calling" THEN "call_interrupted"
               ELSE "agent_interrupted"
    /\ UNCHANGED << mode, attached_files, auto_pass_used, sessions,
                    payload_info, listed, tools, called, created, full_prompt,
                    consumed, prevConsumed, teardown, observed >>

\* ------------------------------------------------------------------ teardown

\* finally: try: await client.disconnect_all() except Exception: pass
Teardown(disconnectOk) ==
    /\ pc = "teardown"
    /\ pc' = "done"
    /\ teardown' = IF disconnectOk THEN "ok" ELSE "failed"
    /\ sessions' = IF disconnectOk THEN <<>> ELSE sessions
    /\ observed' = TeardownOutcome(primary, disconnectOk)
    /\ last' = "teardown"
    /\ UNCHANGED << mode, attached_files, auto_pass_used, turnVars, consumed,
                    prevConsumed, primary >>

\* Ctrl-C while disconnect_all is awaited: not an Exception, so not caught
InterruptTeardown ==
    /\ pc = "teardown"
    /\ pc' = "done"
    /\ teardown' = "aborted"
    /\ observed' = "err:cancel"
    /\ last' = "teardown_interrupted"
    /\ UNCHANGED << mode, attached_files, auto_pass_used, sessions, turnVars,
                    consumed, prevConsumed, primary >>

\* --------------------------------------------------------------- the program

Next ==
    \/ \E paths \in SeqsUpTo(Paths, MaxFiles) : MainPreloadError(paths)
    \/ \E paths \in SeqsUpTo(Paths, MaxFiles) : MainSingle(paths)
    \/ \E paths \in SeqsUpTo(Paths, MaxFiles), llmOk \in BOOLEAN :
          MainInteractive(paths, llmOk)
    \/ EmptyInput
    \/ Quit
    \/ \E path \in Paths : Attach(path)
    \/ Files
    \/ Clear
    \/ Help
    \/ \E listing \in Listings, createOk \in BOOLEAN :
          FreeText(listing, createOk)
    \/ \E listing \in Listings, createOk \in BOOLEAN, llmOk \in BOOLEAN :
          SingleAttempt(listing, createOk, llmOk)
    \/ CallReturns
    \/ CallRaises
    \/ \E connects \in BOOLEAN : AgentReturns(connects)
    \/ AgentRaises
    \/ InterruptInput
    \/ \E asKeyboardInterrupt \in BOOLEAN :
          InterruptInFlight(asKeyboardInterrupt)
    \/ \E disconnectOk \in BOOLEAN : Teardown(disconnectOk)
    \/ InterruptTeardown

Spec == Init /\ [][Next]_vars

\* ------------------------------------------- the payload extractor on its own

\* Attachments as any caller may build them: the mime type need not follow
\* from the name.
ExtractFilenames == {NameA, NameN, NameC}

ExtractAttachments ==
    { [ filename |-> n, mime_type |-> m, data |-> B64Encode(c), size |-> Len(c),
        path |-> <<"d1", n>> ] :
        n \in ExtractFilenames,
        m \in {"application/json", "text/plain"},
        c \in {ObjBytes, ArrBytes, TextBytes, BadUtf8Bytes} }

InitExtract ==
    /\ pc = "extract"
    /\ mode = "none"
    /\ attached_files \in SeqsUpTo(ExtractAttachments, MaxExtractLen)
    /\ auto_pass_used \in SUBSET ExtractFilenames
    /\ sessions = <<>>
    /\ payload_info = None
    /\ listed = None
    /\ tools = <<>>
    /\ called = None
    /\ created = FALSE
    /\ auto_result = "unset"
    /\ full_prompt = None
    /\ last = "init"
    /\ consumed = None
    /\ prevConsumed = None
    /\ primary = "unset"
    /\ teardown = "none"
    /\ observed = "unset"

\* extract_json_payload(files, used_filenames)
ExtractWithUsed ==
    /\ pc = "extract"
    /\ payload_info' = extract_json_payload(attached_files, Some(auto_pass_used))
    /\ pc' = "extracted"
    /\ last' = "extract"
    /\ UNCHANGED << mode, attached_files, auto_pass_used, sessions, listed,
                    tools, called, created, auto_result, full_prompt, consumed,
                    prevConsumed, runVars >>

\* extract_json_payload(files): used_filenames defaults to None
ExtractWithoutUsed ==
    /\ pc = "extract"
    /\ payload_info' = extract_json_payload(attached_files, None)
    /\ pc' = "extracted_all"
    /\ last' = "extract"
    /\ UNCHANGED << mode, attached_files, auto_pass_used, sessions, listed,
                    tools, called, created, auto_result, full_prompt, consumed,
                    prevConsumed, runVars >>

NextExtract == ExtractWithUsed \/ ExtractWithoutUsed

SpecExtract == InitExtract /\ [][NextExtract]_vars

\* ------------------------------------------------------------------- claims

\* the fast path fired in the current turn: call_tool was invoked
Fired == called # None

\* tools counted over the sessions whose list_tools answered
RECURSIVE CountListed(_, _)
CountListed(listing, i) ==
    IF i > Len(ServerOrder) THEN 0
    ELSE (IF listing[ServerOrder[i]].ok
          THEN Len(listing[ServerOrder[i]].tools) ELSE 0)
         + CountListed(listing, i + 1)

TotalListed == CountListed(listed[1], 1)

\* C1: in the state right after /clear the UsedFilenamesSet is empty, so a
\* filename consumed before the clear is eligible again once re-attached.
C1_ClearResetsUsed == last = "clear" => auto_pass_used = {}

\* C2: an attempt that listed a total number of tools other than 1 abstains
\* (returns None) and invokes no tool, whatever the payload and the schemas.
C2_AbstainUnlessOneTool ==
    (listed # None /\ TotalListed # 1) => (~Fired /\ auto_result = "none")

C2_Witness ==
    /\ listed # None
    /\ TotalListed = 2
    /\ payload_info # None
    /\ last = "abstain"
    /\ pc = "agent"

\* C3 as claimed: the free-text turn right after a successful auto-invocation,
\* with no attach or clear in between, never fires the fast path.
C3_NoRefireAtAll == prevConsumed # None => ~Fired

\* an attachment the extractor may still return, given the used filenames
Unconsumed(file_info, used) ==
    /\ file_info.filename \notin used
    /\ IsJson(file_info)
    /\ ParseOk(file_info)

\* C3 as amended: after a successful auto-invocation the consumed filename is
\* in the UsedFilenamesSet, and the next free-text turn (no attach or clear in
\* between) does not fire on that filename; it fires only on another
\* attachment whose filename is not yet used, and abstains when there is none.
C3_NoRefireOnConsumed ==
    /\ consumed # None => consumed[1] \in auto_pass_used
    /\ (prevConsumed # None /\ Fired) =>
          /\ payload_info[2] # prevConsumed[1]
          /\ prevConsumed[1] \in auto_pass_used
    /\ ( /\ prevConsumed # None
         /\ last \in {"auto_call", "abstain"}
         /\ \A i \in 1..Len(attached_files) :
               ~Unconsumed(attached_files[i], auto_pass_used) )
       => (~Fired /\ pc = "agent")

C3_Witness ==
    /\ prevConsumed # None
    /\ last = "abstain"
    /\ payload_info = None
    /\ attached_files # <<>>
    /\ pc = "agent"

\* C4: a failing call_tool leaves maybe_auto_call_tool as an exception: the
\* attempt returns neither a string nor None, the reasoning agent is not run,
\* and the caller of run_agent gets that failure.
C4_CallFailurePropagates ==
    /\ last = "auto_error" =>
          (auto_result = "raise" /\ pc = "teardown" /\ primary = "err:call")
    /\ (auto_result = "raise" /\ Fired) => pc \notin {"agent", "input"}

C4_Witness ==
    /\ last = "auto_error"
    /\ mode = "single"
    /\ auto_result = "raise"
    /\ primary = "err:call"

\* C5: in the interactive session a failing call_tool ends only the turn: the
\* loop goes on to the next input.
C5_LoopContinuesAfterCallFailure ==
    (mode = "interactive" /\ last = "auto_error") => pc = "input"

\* the exit paths of a run that go through the try block
ExitThroughTry ==
    pc = "done" /\ primary \notin {"ret:preload_error", "err:setup"}

\* C6: every exit path of run_agent and interactive_mode (completion, quit,
\* an error of the turn, an interrupt) enters the teardown, and a teardown
\* that fails leaves the run's own result or error as what the caller gets.
C6_TeardownAlwaysAndSwallowed ==
    ExitThroughTry =>
        /\ teardown # "none"
        /\ teardown \in {"ok", "failed"} => observed = primary

C6_Witness ==
    /\ pc = "done"
    /\ mode = "interactive"
    /\ primary = "err:call"
    /\ teardown = "failed"
    /\ observed = "err:call"

\* C7: extract_json_payload never returns a filename of the used set it got.
C7_NeverReturnsUsed ==
    (pc = "extracted" /\ payload_info # None) =>
        payload_info[2] \notin auto_pass_used

C7_Witness ==
    /\ pc = "extracted"
    /\ Len(attached_files) = 2
    /\ attached_files[1].filename \in auto_pass_used
    /\ attached_files[1].mime_type = "application/json"
    /\ attached_files[1].data = B64Encode(ObjBytes)
    /\ payload_info = <<[kind |-> "list"], attached_files[2].filename>>

\* C8: a session whose list_tools fails counts for zero tools and the others
\* are still listed; the fast path fires exactly when the tools of the
\* sessions that answered sum to 1 and that tool's schema accepts the payload.
C8_EnumerationIsolatesFailures ==
    listed # None =>
        /\ Len(tools) = TotalListed
        /\ Fired <=>
              /\ TotalListed = 1
              /\ \E i \in 1..Len(ServerOrder) :
                    LET answer == listed[1][ServerOrder[i]]
                    IN  /\ answer.ok
                        /\ Len(answer.tools) = 1
                        /\ payload_matches_schema(
                               InputSchemaOf(answer.tools[1]), payload_info[1])
                        /\ Fired => called[1].server = ServerOrder[i]

C8_Witness ==
    /\ listed # None
    /\ ~listed[1]["skills"].ok
    /\ listed[1]["extra"] = ListOf(<<ToolAny>>)
    /\ Fired
    /\ called[1].server = "extra"
    /\ auto_result = "str"

\* the declared type rejects the payload's shape
ShapeRejected(schema, payload) ==
    \/ ("type" \in DOMAIN schema /\ schema.type = "object"
        /\ payload.kind # "dict")
    \/ ("type" \in DOMAIN schema /\ schema.type = "array"
        /\ payload.kind # "list")

\* eligibility and parsing stated on the attachment's fields
EligibleFor(file_info, used) ==
    /\ file_info.filename \notin used
    /\ \/ file_info.mime_type = "application/json"
       \/ /\ Len(file_info.filename) >= 5
          /\ \A k \in 1..5 :
                file_info.filename[Len(file_info.filename) - 5 + k] = DotJson[k]

Parses(file_info) ==
    file_info.data.b64 \in {ObjBytes, ArrBytes, NumBytes}

ValueOf(file_info) ==
    IF file_info.data.b64 = ObjBytes THEN [kind |-> "dict"]
    ELSE IF file_info.data.b64 = ArrBytes THEN [kind |-> "list"]
    ELSE [kind |-> "int"]

FirstGood(files, used) ==
    { i \in 1..Len(files) :
        /\ EligibleFor(files[i], used) /\ Parses(files[i])
        /\ \A j \in 1..(i - 1) :
              ~(EligibleFor(files[j], used) /\ Parses(files[j])) }

ExtractedIsFirstGood(used) ==
    LET good == FirstGood(attached_files, used)
    IN  IF good = {} THEN payload_info = None
        ELSE \E i \in good :
                payload_info =
                    <<ValueOf(attached_files[i]), attached_files[i].filename>>

\* C9: extract_json_payload returns the first attachment, in order, that is
\* eligible and decodes and parses; an eligible one that fails is skipped and
\* the scan goes on; None exactly when there is no such attachment.
C9_FirstEligibleParsable ==
    /\ pc = "extracted" => ExtractedIsFirstGood(auto_pass_used)
    /\ pc = "extracted_all" => ExtractedIsFirstGood({})

C9_Witness ==
    /\ pc = "extracted"
    /\ Len(attached_files) = 2
    /\ EligibleFor(attached_files[1], auto_pass_used)
    /\ ~Parses(attached_files[1])
    /\ attached_files[1].filename # attached_files[2].filename
    /\ attached_files[2].mime_type = "text/plain"
    /\ payload_info = <<[kind |-> "dict"], attached_files[2].filename>>

\* C10: with a single tool listed, the attempt abstains without a call
\* exactly when the declared type is "object" and the payload is no dict, or
\* "array" and the payload is no list; any other or absent type is accepted.
C10_ShallowSchemaGate ==
    (listed # None /\ Len(tools) = 1) =>
        /\ ~Fired <=> ShapeRejected(tools[1][2].inputSchema, payload_info[1])
        /\ ~Fired => auto_result = "none"

C10_Witness ==
    /\ listed # None
    /\ tools = << <<"skills", ToolArray>> >>
    /\ payload_info[1] = [kind |-> "dict"]
    /\ ~Fired
    /\ pc = "agent"

\* the file names the prompt mentions, one per file block, in order: the
\* piece after each block opener
RECURSIVE BlockNamesFrom(_, _)
BlockNamesFrom(prompt, i) ==
    IF i >= Len(prompt) THEN <<>>
    ELSE IF /\ "lit" \in DOMAIN prompt[i]
            /\ prompt[i].lit \in {"\n--- File: ", "\n[Attached file: "}
         THEN <<prompt[i + 1].name>> \o BlockNamesFrom(prompt, i + 1)
    ELSE BlockNamesFrom(prompt, i + 1)

EndsWithUserText(prompt) ==
    /\ Len(prompt) >= Len(UserText)
    /\ \A k \in 1..Len(UserText) :
          prompt[Len(prompt) - Len(UserText) + k] = UserText[k]

C12_AttachmentsFrame ==
    [][ mode = "interactive" =>
          IF last' = "attach_ok"
          THEN /\ Len(attached_files') = Len(attached_files) + 1
               /\ SubSeq(attached_files', 1, Len(attached_files))
                     = attached_files
          ELSE IF last' = "clear" THEN attached_files' = <<>>
          ELSE attached_files' = attached_files ]_vars

C12_Witness ==
    /\ mode = "interactive"
    /\ last = "attach_ok"
    /\ Len(attached_files) = 2
    /\ attached_files[1] # attached_files[2]

\* C13: the UsedFilenamesSet changes only when call_tool has returned, and
\* then by gaining the extracted filename; abstaining and failing attempts
\* leave it as it was, and no filename is ever removed.
C13_UsedOnlyGrowsOnSuccess ==
    [][ /\ auto_pass_used \subseteq auto_pass_used'
        /\ auto_pass_used' # auto_pass_used =>
              /\ pc = "calling"
              /\ last' = "auto_ok"
              /\ auto_result' = "str"
              /\ auto_pass_used' = auto_pass_used \cup {payload_info[2]}
        /\ (pc = "calling" /\ last' = "auto_ok" /\ mode = "interactive") =>
              payload_info[2] \in auto_pass_used'
        /\ last' \in { "auto_call", "abstain", "connect_error", "auto_error",
                       "call_interrupted" } =>
              auto_pass_used' = auto_pass_used ]_vars

C13_Witness ==
    /\ mode = "interactive"
    /\ last = "auto_ok"
    /\ auto_pass_used = {NameA, NameC}

\* a step that is a decision attempt (maybe_auto_call_tool up to call_tool)
AttemptStep ==
    /\ pc \in {"input", "attempt"}
    /\ last' \in {"auto_call", "abstain", "connect_error", "llm_error"}

\* C14: a decision attempt establishes sessions only when it finds the
\* registry empty; an attempt that finds a session leaves the registry as it
\* is and establishes nothing.
C14_SessionsOnlyWhenEmpty ==
    [][ AttemptStep =>
          /\ created' => sessions = <<>>
          /\ sessions # <<>> => (sessions' = sessions /\ ~created')
          /\ sessions' # sessions => (created' /\ sessions = <<>>) ]_vars

C14_Witness ==
    /\ mode = "interactive"
    /\ prevConsumed # None
    /\ last = "auto_call"
    /\ listed # None
    /\ ~created
    /\ sessions = ServerOrder

\* the used set the attempt of the current mode hands to the extractor
UsedForAttempt == IF mode = "interactive" THEN auto_pass_used ELSE {}

\* C15: an attempt that finds no eligible payload abstains before anything
\* else: no session is established, no tool list requested, no tool invoked,
\* and the registry is unchanged.
C15_NoPayloadNoSessions ==
    [][ (AttemptStep /\ FirstGood(attached_files, UsedForAttempt) = {}) =>
          /\ payload_info' = None
          /\ sessions' = sessions
          /\ ~created'
          /\ listed' = None
          /\ tools' = <<>>
          /\ called' = None
          /\ auto_result' = "none" ]_vars

C15_Witness ==
    /\ mode = "interactive"
    /\ last = "abstain"
    /\ payload_info = None
    /\ attached_files # <<>>
    /\ sessions = <<>>
    /\ listed = None

\* C16: an interrupt that arrives while the fast-path call is in flight does
\* not abort it (the call completes, its filename is marked used, its result
\* is returned), and an interrupt does not abort the teardown.
C16_InterruptSparesCallAndTeardown ==
    /\ last = "call_interrupted" =>
          /\ auto_result = "str"
          /\ mode = "interactive" => payload_info[2] \in auto_pass_used
    /\ teardown # "aborted"

\* C17: an attachment whose filename is in the UsedFilenamesSet is never the
\* one an attempt extracts or calls the tool with, whichever file it was
\* loaded from.
C17_ConsumedByFilename ==
    (mode = "interactive" /\ last \in {"auto_call", "abstain"}) =>
        /\ payload_info # None => payload_info[2] \notin auto_pass_used
        /\ (\A i \in 1..Len(attached_files) :
               attached_files[i].filename \in auto_pass_used)
           => (payload_info = None /\ ~Fired)

C17_Witness ==
    /\ mode = "interactive"
    /\ last = "abstain"
    /\ attached_files = <<load_file(<<"d1", NameA>>), load_file(<<"d2", NameA>>)>>
    /\ auto_pass_used = {NameA}
    /\ payload_info = None
    /\ ~Fired

====
